---------------------------- MODULE Spec2Model ----------------------------
(***************************************************************************)
(* Model of the Polymarket hypergraph generators:                          *)
(*   src/hypergraph_utils.py, src/generate_hypergraph.py and               *)
(*   src/models/DHyperNodeTPP/convert_polymarket_to_hypergraph.py.         *)
(*                                                                         *)
(* Python strings are modelled as sequences of character codes, so that    *)
(* str.lower() and the lexicographic order used by sorted() and            *)
(* list.sort() are computed rather than assumed.                           *)
(***************************************************************************)
EXTENDS Integers, Sequences, FiniteSets, TLC

VARIABLES
    fill,          \* SpecPure: the fill handed to the pure functions
    result,        \* SpecPure: what classify_trade returned for it
    bucket,        \* SpecPure: get_day_start_timestamp(fill.timestamp)
    rebucket,      \* SpecPure: get_day_start_timestamp(bucket)
    raw,           \* data/raw: market slug -> content of fills_<slug>.json
    files,         \* data/hypergraphs: directory -> the four companion files
    input,         \* SpecFile: the fills file given to the converters
    dout,          \* SpecFile: the directed converter's output directory
    wallet_to_id,  \* SpecFile: the node mapping of the last converter run
    outcome,       \* directory -> what the last generator call for it returned or raised
    built_edges,   \* directory -> the hyperedge list its builder returned in that call
    call,          \* SpecWrite: the arguments the serializer is called with
    remote,        \* market slug -> what the Gamma API and the subgraph answer for it
    request,       \* SpecPipeline: the request last handled
    response,      \* SpecPipeline: the response to it
    rerun,         \* SpecPipeline: that request is the same as the one handled before it
    pc,            \* SpecTasks: task -> the step of process_market it is about to take
    pending        \* SpecTasks: task -> the dataset it has built and is writing

\* The variables of the web application and its tasks.
AppVars == <<remote, request, response, rerun, pc, pending>>

vars == <<fill, result, bucket, rebucket, raw, files, input, dout, wallet_to_id, outcome, built_edges, call,
          remote, request, response, rerun, pc, pending>>

----------------------------------------------------------------------------
(* Bounds of the model.                                                    *)

\* Largest day number of a timestamp handed to the pure functions.
MaxDay == 2

\* Largest total number of fills in the raw directory / in the input file.
MaxFills == 3

\* Largest number of hyperedges handed to the serializer directly.
MaxEdges == 2

----------------------------------------------------------------------------
(* Strings.                                                                *)

\* str.lower() on one character code: 'A'..'Z' -> 'a'..'z'.
LowerChar(c) == IF c >= 65 /\ c <= 90 THEN c + 32 ELSE c

\* str.lower()
Lower(s) == [i \in 1..Len(s) |-> LowerChar(s[i])]

\* Python's s < t on str: lexicographic on code points, a proper prefix first.
StrLess(s, t) ==
    \E i \in 1..(Len(s) + 1) :
        /\ \A j \in 1..(i - 1) : j <= Len(t) /\ s[j] = t[j]
        /\ \/ i = Len(s) + 1 /\ Len(t) >= i
           \/ i <= Len(s) /\ i <= Len(t) /\ s[i] < t[i]

\* sorted(S) for a set of strings: the ascending list of its elements.
RECURSIVE SortedStrings(_)
SortedStrings(S) ==
    IF S = {} THEN <<>>
    ELSE LET m == CHOOSE x \in S : \A y \in S \ {x} : StrLess(x, y)
         IN  <<m>> \o SortedStrings(S \ {m})

\* sorted(S) for a set of integers.
RECURSIVE SortedInts(_)
SortedInts(S) ==
    IF S = {} THEN <<>>
    ELSE LET m == CHOOSE x \in S : \A y \in S : x <= y
         IN  <<m>> \o SortedInts(S \ {m})

Range(s) == {s[i] : i \in 1..Len(s)}

RECURSIVE SumSeq(_)
SumSeq(s) == IF s = <<>> THEN 0 ELSE Head(s) + SumSeq(Tail(s))

\* All orderings of the elements of a finite set, as sequences.
Orderings(S) ==
    {p \in [1..Cardinality(S) -> S] : \A i, j \in 1..Cardinality(S) : p[i] = p[j] => i = j}

\* All rearrangements of a sequence.
Rearrangements(s) ==
    {[i \in 1..Len(s) |-> s[p[i]]] : p \in Orderings(1..Len(s))}

----------------------------------------------------------------------------
(* Values of the input domain.                                             *)

AddrA  == <<65>>        \* "A"
AddrB  == <<66>>        \* "B"
Addra  == <<97>>        \* "a"
Addrb  == <<98>>        \* "b"
Addrs  == {AddrA, AddrB, Addra, Addrb}

Cash   == <<48>>        \* "0": the cash-leg sentinel
Tok1   == <<49>>        \* "1"
Tok2   == <<50>>        \* "2"
Assets == {Cash, Tok1, Tok2}

\* A key that is absent from the fill's JSON object (fill['k'] raises KeyError).
Missing == <<-1>>

BUY  == <<66, 85, 89>>          \* 'BUY'
SELL == <<83, 69, 76, 76>>      \* 'SELL'

Market1 == <<109, 49>>          \* "m1"
Market2 == <<109, 50>>          \* "m2"
Markets == {Market1, Market2}
MarketDefault == <<109>>        \* stands for the literal 'market'
UnifiedDir == <<117>>           \* data/hypergraphs/unified, prefix polymarket-unified
Dirs == Markets \cup {UnifiedDir}

SecondsPerDay == 86400

\* Offsets within a day that exercise the hour, minute and second fields.
DayOffsets == {0, 1, 59, 3599, 43200, 86399}

Timestamps == {d * SecondsPerDay + o : d \in 0..MaxDay, o \in DayOffsets}

\* Every fill of the pure functions' input domain.
Fills ==
    [maker : Addrs, taker : Addrs,
     makerAssetId : Assets \cup {Missing}, takerAssetId : Assets \cup {Missing},
     timestamp : Timestamps]

----------------------------------------------------------------------------
(* The trade classifier.                                                   *)

\* Sensitivity variant: rounds to the nearest day instead of truncating.
get_day_start_timestamp_rounding(unix_timestamp) ==
    ((unix_timestamp + SecondsPerDay \div 2) \div SecondsPerDay) * SecondsPerDay

\* datetime.fromtimestamp(t, utc).replace(hour=0, minute=0, second=0).timestamp()
get_day_start_timestamp(unix_timestamp) ==
    LET days   == unix_timestamp \div SecondsPerDay
        secs   == unix_timestamp % SecondsPerDay
        dt     == [day |-> days, hour |-> secs \div 3600,
                   minute |-> (secs % 3600) \div 60, second |-> secs % 60]
        start  == [dt EXCEPT !.hour = 0, !.minute = 0, !.second = 0]
    IN  start.day * SecondsPerDay + start.hour * 3600 + start.minute * 60 + start.second

\* Sensitivity variant: the else branch takes both roles from the taker.
classify_trade_sameparty(f) ==
    IF f.makerAssetId = Missing \/ f.takerAssetId = Missing
    THEN [err |-> "KeyError"]
    ELSE IF f.makerAssetId = Cash
         THEN [err |-> "none", buyer |-> Lower(f.maker), seller |-> Lower(f.taker),
               outcome_token |-> f.takerAssetId,
               day_start |-> get_day_start_timestamp(f.timestamp)]
         ELSE [err |-> "none", buyer |-> Lower(f.taker), seller |-> Lower(f.taker),
               outcome_token |-> f.makerAssetId,
               day_start |-> get_day_start_timestamp(f.timestamp)]

\* classify_trade: the same code in hypergraph_utils.py and generate_hypergraph.py.
classify_trade(f) ==
    IF f.makerAssetId = Missing \/ f.takerAssetId = Missing
    THEN [err |-> "KeyError"]
    ELSE LET maker == Lower(f.maker)
             taker == Lower(f.taker)
         IN  IF f.makerAssetId = Cash
             THEN [err |-> "none", buyer |-> maker, seller |-> taker,
                   outcome_token |-> f.takerAssetId,
                   day_start |-> get_day_start_timestamp(f.timestamp)]
             ELSE [err |-> "none", buyer |-> taker, seller |-> maker,
                   outcome_token |-> f.makerAssetId,
                   day_start |-> get_day_start_timestamp(f.timestamp)]

----------------------------------------------------------------------------
(* SpecPure: the pure functions applied to every fill of the domain.       *)

NotRun == [err |-> "notrun"]
NoFill == [maker |-> <<>>, taker |-> <<>>, makerAssetId |-> <<>>,
           takerAssetId |-> <<>>, timestamp |-> 0]

InitPure ==
    /\ fill \in Fills
    /\ result = NotRun
    /\ bucket = -1
    /\ rebucket = -1
    /\ raw = <<>>
    /\ files = <<>>
    /\ input = <<>>
    /\ dout = <<>>
    /\ wallet_to_id = <<>>
    /\ call = <<>>
    /\ remote = <<>> /\ request = <<>> /\ response = <<>> /\ rerun = FALSE
    /\ pc = <<>> /\ pending = <<>>
    /\ outcome = <<>>
    /\ built_edges = <<>>

ClassifyTrade ==
    /\ result = NotRun
    /\ result' = classify_trade(fill)
    /\ UNCHANGED <<fill, bucket, rebucket, raw, files, input, dout, wallet_to_id, outcome, built_edges, call, AppVars>>

DayBucket ==
    /\ bucket = -1
    /\ bucket' = get_day_start_timestamp(fill.timestamp)
    /\ rebucket' = get_day_start_timestamp(get_day_start_timestamp(fill.timestamp))
    /\ UNCHANGED <<fill, result, raw, files, input, dout, wallet_to_id, outcome, built_edges, call, AppVars>>

NextPure == ClassifyTrade \/ DayBucket

SpecPure == InitPure /\ [][NextPure]_vars

----------------------------------------------------------------------------
(* The hyperedge aggregator.                                               *)
(*                                                                         *)
(* hyperedge_data is a defaultdict(set): a dict keeps its keys in the      *)
(* order of first insertion, so it is a sequence of (key, traders) items.  *)

\* hyperedge_data[key].add(trader)
DictAdd(data, key, trader) ==
    IF \E i \in 1..Len(data) : data[i].key = key
    THEN [i \in 1..Len(data) |->
            IF data[i].key = key
            THEN [data[i] EXCEPT !.traders = @ \cup {trader}]
            ELSE data[i]]
    ELSE Append(data, [key |-> key, traders |-> {trader}])

\* Python's tuple comparison k1 < k2, every component a string (an integer
\* component is carried as the one-element sequence of its value).
TupleLess(k1, k2) ==
    \E i \in 1..Len(k1) :
        /\ i <= Len(k2)
        /\ \A j \in 1..(i - 1) : k1[j] = k2[j]
        /\ StrLess(k1[i], k2[i])

\* One step of a stable sort: item e goes after every item whose key is <= its own.
RECURSIVE InsertByKey(_, _)
InsertByKey(e, sorted) ==
    IF sorted = <<>> THEN <<e>>
    ELSE IF TupleLess(e.k, Head(sorted).k)
         THEN <<e>> \o sorted
         ELSE <<Head(sorted)>> \o InsertByKey(e, Tail(sorted))

\* list.sort(key=...) on items [k |-> sort key, v |-> element]: stable, ascending.
RECURSIVE SortByKey(_)
SortByKey(items) ==
    IF items = <<>> THEN <<>>
    ELSE InsertByKey(items[Len(items)], SortByKey(SubSeq(items, 1, Len(items) - 1)))

Values(items) == [i \in 1..Len(items) |-> items[i].v]

\* Sensitivity variant: the key carries the literal 'market', not the slug.
AddTrade_constant_market(acc, market, trade_info) ==
    IF trade_info.err # "none"
    THEN [acc EXCEPT !.err = trade_info.err]
    ELSE [err |-> "none",
          data |-> DictAdd(
                     DictAdd(acc.data,
                             <<MarketDefault, trade_info.outcome_token, trade_info.day_start, BUY>>,
                             trade_info.buyer),
                     <<MarketDefault, trade_info.outcome_token, trade_info.day_start, SELL>>,
                     trade_info.seller),
          all_traders |-> acc.all_traders \cup {trade_info.buyer, trade_info.seller}]

\* Lines 86-94 of hypergraph_utils.py (276-284 there, 106-114 of
\* generate_hypergraph.py): one classified trade added to the two buckets.  A
\* classification that raised ends the aggregation with its exception.
AddTrade(acc, market, trade_info) ==
    IF trade_info.err # "none"
    THEN [acc EXCEPT !.err = trade_info.err]
    ELSE [err |-> "none",
          data |-> DictAdd(
                     DictAdd(acc.data,
                             <<market, trade_info.outcome_token, trade_info.day_start, BUY>>,
                             trade_info.buyer),
                     <<market, trade_info.outcome_token, trade_info.day_start, SELL>>,
                     trade_info.seller),
          all_traders |-> acc.all_traders \cup {trade_info.buyer, trade_info.seller}]

\* The loop over the fills of one market.
RECURSIVE AggregateFills(_, _, _)
AggregateFills(fills, market, acc) ==
    IF fills = <<>> \/ acc.err # "none" THEN acc
    ELSE AggregateFills(Tail(fills), market,
                        AddTrade(acc, market, classify_trade(Head(fills))))

EmptyAcc == [err |-> "none", data |-> <<>>, all_traders |-> {}]

\* Lines 96-105 of hypergraph_utils.py: the dict items as hyperedge dicts.
EdgesOf(data) ==
    [i \in 1..Len(data) |->
        [market |-> data[i].key[1], outcome |-> data[i].key[2],
         day_start |-> data[i].key[3], side |-> data[i].key[4],
         traders |-> data[i].traders]]

\* Sensitivity variant: the hyperedges are returned in dict order, unsorted.
SortEdges_unsorted(edges) == edges

\* hyperedges.sort(key=lambda x: (x['day_start'], x['market'], x['outcome'], x['side']))
SortEdges(edges) ==
    Values(SortByKey([i \in 1..Len(edges) |->
        [k |-> << <<edges[i].day_start>>, edges[i].market, edges[i].outcome, edges[i].side >>,
         v |-> edges[i]]]))

\* Lines 96-110: what a builder returns for an aggregation, or its exception.
Built(acc) ==
    IF acc.err # "none"
    THEN [err |-> acc.err]
    ELSE [err |-> "none", hyperedges |-> SortEdges(EdgesOf(acc.data)),
          all_traders |-> acc.all_traders]

build_hypergraph_from_fills(fills, market_slug) ==
    Built(AggregateFills(fills,
                         IF market_slug = <<>> THEN MarketDefault ELSE market_slug,
                         EmptyAcc))

\* The loop over fills_by_market.items(): listing is the order of the dict's keys.
RECURSIVE AggregateMarkets(_, _, _)
AggregateMarkets(listing, fills_by_market, acc) ==
    IF listing = <<>> THEN acc
    ELSE AggregateMarkets(Tail(listing), fills_by_market,
            AggregateFills(fills_by_market[Head(listing)], Head(listing), acc))

\* build_hypergraph of generate_hypergraph.py.
build_hypergraph(listing, fills_by_market) ==
    Built(AggregateMarkets(listing, fills_by_market, EmptyAcc))

\* Lines 214-222 of generate_hypergraph.py: the key has no market.
AddTradePerMarket(acc, trade_info) ==
    IF trade_info.err # "none"
    THEN [acc EXCEPT !.err = trade_info.err]
    ELSE [err |-> "none",
          data |-> DictAdd(
                     DictAdd(acc.data,
                             <<trade_info.outcome_token, trade_info.day_start, BUY>>,
                             trade_info.buyer),
                     <<trade_info.outcome_token, trade_info.day_start, SELL>>,
                     trade_info.seller),
          all_traders |-> acc.all_traders \cup {trade_info.buyer, trade_info.seller}]

RECURSIVE AggregatePerMarket(_, _)
AggregatePerMarket(fills, acc) ==
    IF fills = <<>> \/ acc.err # "none" THEN acc
    ELSE AggregatePerMarket(Tail(fills), AddTradePerMarket(acc, classify_trade(Head(fills))))

\* Sensitivity variant: the per-market edges are sorted by outcome first.
BuiltPerMarket_outcome_first(acc) ==
    IF acc.err # "none"
    THEN [err |-> acc.err]
    ELSE [err |-> "none",
          hyperedges |-> Values(SortByKey([i \in 1..Len(acc.data) |->
              [k |-> << acc.data[i].key[1], <<acc.data[i].key[2]>>, acc.data[i].key[3] >>,
               v |-> [outcome |-> acc.data[i].key[1], day_start |-> acc.data[i].key[2],
                      side |-> acc.data[i].key[3], traders |-> acc.data[i].traders]]])),
          all_traders |-> acc.all_traders]

\* Lines 224-237 of generate_hypergraph.py: the items as hyperedge dicts,
\* sorted by (day_start, outcome, side).
BuiltPerMarket(acc) ==
    IF acc.err # "none"
    THEN [err |-> acc.err]
    ELSE [err |-> "none",
          hyperedges |-> Values(SortByKey([i \in 1..Len(acc.data) |->
              [k |-> << <<acc.data[i].key[2]>>, acc.data[i].key[1], acc.data[i].key[3] >>,
               v |-> [outcome |-> acc.data[i].key[1], day_start |-> acc.data[i].key[2],
                      side |-> acc.data[i].key[3], traders |-> acc.data[i].traders]]])),
          all_traders |-> acc.all_traders]

\* build_per_market_hypergraph of generate_hypergraph.py.
build_per_market_hypergraph(market_slug, fills) ==
    BuiltPerMarket(AggregatePerMarket(fills, EmptyAcc))

----------------------------------------------------------------------------
(* The undirected serializer.                                              *)

FileNames == {"node-labels", "nverts", "simplices", "times"}

\* A dataset directory: which of the four files exist, and their lines.
EmptyDir ==
    [present |-> {}, labels |-> <<>>, nverts |-> <<>>, simplices |-> <<>>, times |-> <<>>]

\* Position of x in a duplicate-free sequence.
IndexOf(s, x) == CHOOSE i \in 1..Len(s) : s[i] = x

\* Sensitivity variant: ids are the enumerate() indexes, starting at 0.
TraderToId_zero_based(traders_list) ==
    [t \in Range(traders_list) |-> IndexOf(traders_list, t) - 1]

\* trader_to_id = {trader: idx + 1 for idx, trader in enumerate(traders_list)}
TraderToId(traders_list) ==
    [t \in Range(traders_list) |-> IndexOf(traders_list, t)]

\* Sensitivity variant: nverts records the number of all traders.
AppendEdge_all_traders(acc, day_start, traders, trader_to_id) ==
    [err |-> "none",
     nverts_list    |-> Append(acc.nverts_list, Cardinality(DOMAIN trader_to_id)),
     times_list     |-> Append(acc.times_list, day_start),
     simplices_list |-> acc.simplices_list \o
                        [i \in 1..Len(traders) |-> trader_to_id[traders[i]]]]

\* Lines 149-157: one hyperedge appended to the three parallel lists.
AppendEdge(acc, day_start, traders, trader_to_id) ==
    [err |-> "none",
     nverts_list    |-> Append(acc.nverts_list, Len(traders)),
     times_list     |-> Append(acc.times_list, day_start),
     simplices_list |-> acc.simplices_list \o
                        [i \in 1..Len(traders) |-> trader_to_id[traders[i]]]]

\* The loop over hyperedges (lines 148-157).  A trader without a node id
\* raises KeyError at trader_to_id[trader].
RECURSIVE PrepareLists(_, _, _)
PrepareLists(hyperedges, trader_to_id, acc) ==
    IF hyperedges = <<>> \/ acc.err # "none" THEN acc
    ELSE IF \E t \in Head(hyperedges).traders : t \notin DOMAIN trader_to_id
         THEN [acc EXCEPT !.err = "KeyError"]
         ELSE PrepareLists(Tail(hyperedges), trader_to_id,
                AppendEdge(acc, Head(hyperedges).day_start,
                           SortedStrings(Head(hyperedges).traders), trader_to_id))

EmptyLists == [err |-> "none", nverts_list |-> <<>>, times_list |-> <<>>, simplices_list |-> <<>>]

\* Sensitivity variant: the files are opened for appending, not truncated.
WriteFiles_appending(lists, traders_list, nedges, old) ==
    IF lists.err # "none"
    THEN [dir |-> [old EXCEPT !.present = @ \cup {"node-labels"}, !.labels = @ \o traders_list],
          out |-> [err |-> lists.err]]
    ELSE [dir |-> [present |-> FileNames, labels |-> old.labels \o traders_list,
                   nverts |-> old.nverts \o lists.nverts_list,
                   simplices |-> old.simplices \o lists.simplices_list,
                   times |-> old.times \o lists.times_list],
          out |-> [err |-> "none", nodes |-> Len(traders_list),
                   hyperedges |-> nedges,
                   total_vertex_occurrences |-> SumSeq(lists.nverts_list)]]

\* Lines 137-191 of hypergraph_utils.py: the labels file is written before the
\* lists are prepared, the other three files after; the statistics returned.
WriteFiles(lists, traders_list, nedges, old) ==
    IF lists.err # "none"
    THEN [dir |-> [old EXCEPT !.present = @ \cup {"node-labels"}, !.labels = traders_list],
          out |-> [err |-> lists.err]]
    ELSE [dir |-> [present |-> FileNames, labels |-> traders_list,
                   nverts |-> lists.nverts_list, simplices |-> lists.simplices_list,
                   times |-> lists.times_list],
          out |-> [err |-> "none", nodes |-> Len(traders_list),
                   hyperedges |-> nedges,
                   total_vertex_occurrences |-> SumSeq(lists.nverts_list)]]

WriteWithLabels(hyperedges, traders_list, old) ==
    WriteFiles(PrepareLists(hyperedges, TraderToId(traders_list), EmptyLists),
               traders_list, Len(hyperedges), old)

\* write_hypergraph_files of hypergraph_utils.py on a directory whose content
\* is old: the directory afterwards, and the statistics returned or the
\* exception raised.
write_hypergraph_files(hyperedges, all_traders, old) ==
    WriteWithLabels(hyperedges, SortedStrings(all_traders), old)

\* Lines 152-199 of generate_hypergraph.py: the same writes, then the two
\* assertions, and no return value.
GhWriteFiles(lists, traders_list, old) ==
    IF lists.err # "none"
    THEN [dir |-> [old EXCEPT !.present = @ \cup {"node-labels"}, !.labels = traders_list],
          out |-> [err |-> lists.err]]
    ELSE [dir |-> [present |-> FileNames, labels |-> traders_list,
                   nverts |-> lists.nverts_list, simplices |-> lists.simplices_list,
                   times |-> lists.times_list],
          out |-> IF /\ Len(lists.nverts_list) = Len(lists.times_list)
                     /\ SumSeq(lists.nverts_list) = Len(lists.simplices_list)
                  THEN [err |-> "none"]
                  ELSE [err |-> "AssertionError"]]

GhWriteWithLabels(hyperedges, traders_list, old) ==
    GhWriteFiles(PrepareLists(hyperedges, TraderToId(traders_list), EmptyLists),
                 traders_list, old)

\* write_hypergraph_files of generate_hypergraph.py.
gh_write_hypergraph_files(hyperedges, all_traders, old) ==
    GhWriteWithLabels(hyperedges, SortedStrings(all_traders), old)

----------------------------------------------------------------------------
(* The generators, as operations on the raw directory and the output tree. *)

NoRawFile == [exists |-> FALSE, fills |-> <<>>]

\* Lines 224-225 (301 for the unified run): a built hypergraph is written; a
\* builder's exception leaves the directory as it was.
WithEdges(w, edges) == [dir |-> w.dir, out |-> w.out, edges |-> edges]

WriteBuilt(built, old) ==
    IF built.err # "none"
    THEN [dir |-> old, out |-> [err |-> built.err], edges |-> <<>>]
    ELSE WithEdges(write_hypergraph_files(built.hyperedges, built.all_traders, old),
                   built.hyperedges)

\* generate_market_hypergraph(raw_fills_path, market_slug) of hypergraph_utils.py.
generate_market_hypergraph(rawfile, market_slug, old) ==
    IF ~rawfile.exists
    THEN [dir |-> old, out |-> [err |-> "FileNotFoundError"], edges |-> <<>>]
    ELSE IF rawfile.fills = <<>>
    THEN [dir |-> old, out |-> [err |-> "ValueError"], edges |-> <<>>]
    ELSE WriteBuilt(build_hypergraph_from_fills(rawfile.fills, market_slug), old)

\* The markets whose fills_<slug>.json is in the raw directory.
Listed(rawdir) == {m \in Markets : rawdir[m].exists}

\* fills_by_market as load_raw_fills / lines 250-259 build it.
FillsByMarket(listing, rawdir) == [m \in Range(listing) |-> rawdir[m].fills]

\* generate_unified_hypergraph() of hypergraph_utils.py; listing is the order
\* in which os.listdir returned the files.
generate_unified_hypergraph(listing, rawdir, old) ==
    IF listing = <<>>
    THEN [dir |-> old, out |-> [err |-> "ValueError"], edges |-> <<>>]
    ELSE WriteBuilt(Built(AggregateMarkets(listing, FillsByMarket(listing, rawdir), EmptyAcc)),
                    old)

\* generate_hypergraph.py: a built hypergraph is written by that module's writer.
GhWriteBuilt(built, old) ==
    IF built.err # "none"
    THEN [dir |-> old, out |-> [err |-> built.err], edges |-> <<>>]
    ELSE WithEdges(gh_write_hypergraph_files(built.hyperedges, built.all_traders, old),
                   built.hyperedges)

\* main() of generate_hypergraph.py after the unified build: every step writes
\* one directory, and the first exception ends main.
\* st is the output tree, the outcomes and the returned hyperedge lists.
PutRun(st, d, r) ==
    [tree  |-> [st.tree EXCEPT ![d] = r.dir],
     outs  |-> [st.outs EXCEPT ![d] = r.out],
     edges |-> [st.edges EXCEPT ![d] = r.edges]]

RECURSIVE MainPerMarket(_, _, _)
RECURSIVE MainStep(_, _, _, _, _)
MainStep(r, d, rest, rawdir, st) ==
    IF r.out.err # "none"
    THEN PutRun(st, d, r)
    ELSE MainPerMarket(rest, rawdir, PutRun(st, d, r))

\* The per-market loop of main() (lines 270-280).
MainPerMarket(listing, rawdir, st) ==
    IF listing = <<>> THEN st
    ELSE MainStep(GhWriteBuilt(build_per_market_hypergraph(Head(listing),
                                                           rawdir[Head(listing)].fills),
                               st.tree[Head(listing)]),
                  Head(listing), Tail(listing), rawdir, st)

\* main() of generate_hypergraph.py (lines 250-266, then the loop).
main(listing, rawdir, st) ==
    IF listing = <<>>
    THEN st
    ELSE MainStep(GhWriteBuilt(build_hypergraph(listing, FillsByMarket(listing, rawdir)),
                               st.tree[UnifiedDir]),
                  UnifiedDir, listing, rawdir, st)

----------------------------------------------------------------------------
(* Spec: the generators run on every raw directory of the input domain.    *)

PoolBuy1   == [maker |-> AddrA, taker |-> Addrb, makerAssetId |-> Cash,
               takerAssetId |-> Tok1, timestamp |-> SecondsPerDay + 1]
PoolSell1  == [maker |-> Addrb, taker |-> Addra, makerAssetId |-> Tok1,
               takerAssetId |-> Cash, timestamp |-> 0]
PoolBuy2   == [maker |-> Addra, taker |-> AddrB, makerAssetId |-> Cash,
               takerAssetId |-> Tok2, timestamp |-> SecondsPerDay - 1]
PoolSell1R == [maker |-> Addra, taker |-> Addrb, makerAssetId |-> Tok1,
               takerAssetId |-> Cash, timestamp |-> 1]
PoolNoCash == [maker |-> Addrb, taker |-> Addra, makerAssetId |-> Tok1,
               takerAssetId |-> Tok2, timestamp |-> 0]
PoolNoKey  == [maker |-> Addra, taker |-> Addrb, makerAssetId |-> Cash,
               takerAssetId |-> Missing, timestamp |-> 0]

\* The fills the raw files are made of.
FillPool == {PoolBuy1, PoolSell1, PoolSell1R, PoolBuy2, PoolNoCash, PoolNoKey}

Init ==
    /\ fill = NoFill
    /\ result = NotRun
    /\ bucket = -1
    /\ rebucket = -1
    /\ \E k1 \in 0..MaxFills : \E k2 \in 0..(MaxFills - k1) :
       \E l1 \in [1..k1 -> FillPool] : \E l2 \in [1..k2 -> FillPool] :
       \E e1 \in BOOLEAN : \E e2 \in BOOLEAN :
          /\ k1 > 0 => e1
          /\ k2 > 0 => e2
          /\ raw = (Market1 :> [exists |-> e1, fills |-> l1]) @@
                   (Market2 :> [exists |-> e2, fills |-> l2])
    /\ files = [d \in Dirs |-> EmptyDir]
    /\ outcome = [d \in Dirs |-> NotRun]
    /\ built_edges = [d \in Dirs |-> <<>>]
    /\ input = <<>>
    /\ dout = <<>>
    /\ wallet_to_id = <<>>
    /\ call = <<>>
    /\ remote = <<>> /\ request = <<>> /\ response = <<>> /\ rerun = FALSE
    /\ pc = <<>> /\ pending = <<>>

Untouched == <<fill, result, bucket, rebucket, raw, input, dout, wallet_to_id, call, AppVars>>

\* A generator call on directory d ended with r.
Commit(d, r) ==
    /\ files' = [files EXCEPT ![d] = r.dir]
    /\ outcome' = [outcome EXCEPT ![d] = r.out]
    /\ built_edges' = [built_edges EXCEPT ![d] = r.edges]
    /\ UNCHANGED Untouched

CommitTree(st) ==
    /\ files' = st.tree
    /\ outcome' = st.outs
    /\ built_edges' = st.edges
    /\ UNCHANGED Untouched

GenerateMarketHypergraph(m) ==
    Commit(m, generate_market_hypergraph(raw[m], m, files[m]))

GenerateUnifiedHypergraph ==
    \E listing \in Orderings(Listed(raw)) :
        Commit(UnifiedDir, generate_unified_hypergraph(listing, raw, files[UnifiedDir]))

GenerateHypergraphMain ==
    \E listing \in Orderings(Listed(raw)) :
        CommitTree(main(listing, raw, [tree |-> files, outs |-> outcome, edges |-> built_edges]))

Next ==
    \/ \E m \in Markets : GenerateMarketHypergraph(m)
    \/ GenerateUnifiedHypergraph
    \/ GenerateHypergraphMain

Spec == Init /\ [][Next]_vars

----------------------------------------------------------------------------
(* The directed converter (convert_polymarket_to_hypergraph.py).           *)

DirectedDir == <<100>>          \* the converter's output_dir

WindowDefault == 3600

\* The window sizes given with --window.
Windows == {WindowDefault, SecondsPerDay}

\* The addresses of the fills in the order of their first appearance.
RECURSIVE FirstSeen(_, _)
FirstSeen(fills, seen) ==
    IF fills = <<>> THEN seen
    ELSE FirstSeen(Tail(fills),
           LET s1 == IF Head(fills).maker \in Range(seen) THEN seen
                     ELSE Append(seen, Head(fills).maker)
           IN  IF Head(fills).taker \in Range(s1) THEN s1
               ELSE Append(s1, Head(fills).taker))

\* Sensitivity variant: the wallets are numbered in order of first appearance.
create_node_mapping_first_seen(fills) ==
    [w \in Range(FirstSeen(fills, <<>>)) |-> IndexOf(FirstSeen(fills, <<>>), w) - 1]

\* The wallets set of create_node_mapping (lines 27-30).
Wallets(fills) == UNION {{fills[i].maker, fills[i].taker} : i \in 1..Len(fills)}

\* wallet_to_id = {wallet: idx for idx, wallet in enumerate(sorted(wallets))}
WalletToId(wallet_list) ==
    [w \in Range(wallet_list) |-> IndexOf(wallet_list, w) - 1]

create_node_mapping(fills) == WalletToId(SortedStrings(Wallets(fills)))

\* Sensitivity variant: the edge time is the day bucket of the fill.
transaction_based_hypergraph_day_bucketed(fills, ids) ==
    [err |-> "none",
     hyperedges |-> [i \in 1..Len(fills) |->
        [left |-> <<ids[fills[i].maker]>>, right |-> <<ids[fills[i].taker]>>,
         time |-> get_day_start_timestamp(fills[i].timestamp)]]]

\* transaction_based_hypergraph: one edge per fill, maker -> taker.
transaction_based_hypergraph(fills, ids) ==
    [err |-> "none",
     hyperedges |-> [i \in 1..Len(fills) |->
        [left |-> <<ids[fills[i].maker]>>, right |-> <<ids[fills[i].taker]>>,
         time |-> fills[i].timestamp]]]

\* Sensitivity variant: the window number instead of the window start.
WindowOf_number(timestamp, window_seconds) == timestamp \div window_seconds

\* Line 77: the window of a timestamp.
WindowOf(timestamp, window_seconds) == (timestamp \div window_seconds) * window_seconds

\* Lines 83-90: the ids added to windows[w]['buyers'] and ['sellers'] by fill f.
BuyerId(f, ids)  == IF f.makerAssetId = Cash THEN ids[f.maker] ELSE ids[f.taker]
SellerId(f, ids) == IF f.makerAssetId = Cash THEN ids[f.taker] ELSE ids[f.maker]

\* The fills that fall in window w.
InWindow(fills, w, window_seconds) ==
    {i \in 1..Len(fills) : WindowOf(fills[i].timestamp, window_seconds) = w}

\* Sensitivity variant: every fill is an edge of its own at its window start.
WindowEdges_unmerged(fills, ids, window_seconds, window_times) ==
    [err |-> "none",
     hyperedges |-> [i \in 1..Len(fills) |->
        [left  |-> <<SellerId(fills[i], ids)>>,
         right |-> <<BuyerId(fills[i], ids)>>,
         time  |-> WindowOf(fills[i].timestamp, window_seconds)]]]

\* Lines 93-105: one edge per window in ascending order, both sides sorted; a
\* window with an empty side is dropped.
WindowEdges(fills, ids, window_seconds, window_times) ==
    [err |-> "none",
     hyperedges |-> SelectSeq(
        [k \in 1..Len(window_times) |->
            [left  |-> SortedInts({SellerId(fills[i], ids) :
                          i \in InWindow(fills, window_times[k], window_seconds)}),
             right |-> SortedInts({BuyerId(fills[i], ids) :
                          i \in InWindow(fills, window_times[k], window_seconds)}),
             time  |-> window_times[k]]],
        LAMBDA e : e.left # <<>> /\ e.right # <<>>)]

\* time_window_based_hypergraph: fill['makerAssetId'] raises KeyError when absent.
time_window_based_hypergraph(fills, ids, window_seconds) ==
    IF \E i \in 1..Len(fills) : fills[i].makerAssetId = Missing
    THEN [err |-> "KeyError"]
    ELSE WindowEdges(fills, ids, window_seconds,
            SortedInts({WindowOf(fills[i].timestamp, window_seconds) : i \in 1..Len(fills)}))

DirectedFileNames == {"p_k_list_train", "p_a_list_train", "times"}

EmptyDirectedDir == [present |-> {}, left |-> <<>>, right |-> <<>>, times |-> <<>>]

\* Sensitivity variant: times.txt numbers its lines from 1.
dh_write_hypergraph_files_one_based(hyperedges) ==
    [dir |-> [present |-> DirectedFileNames,
              left  |-> [i \in 1..Len(hyperedges) |-> [idx |-> i - 1, nodes |-> hyperedges[i].left]],
              right |-> [i \in 1..Len(hyperedges) |-> [idx |-> i - 1, nodes |-> hyperedges[i].right]],
              times |-> [i \in 1..Len(hyperedges) |-> [idx |-> i, time |-> hyperedges[i].time]]],
     out |-> IF hyperedges = <<>> THEN [err |-> "ValueError"] ELSE [err |-> "none"]]

\* write_hypergraph_files of the converter: the three files are written in one
\* loop; the statistics after it take min() of the sizes, which raises
\* ValueError for an empty edge list.
dh_write_hypergraph_files(hyperedges) ==
    [dir |-> [present |-> DirectedFileNames,
              left  |-> [i \in 1..Len(hyperedges) |-> [idx |-> i - 1, nodes |-> hyperedges[i].left]],
              right |-> [i \in 1..Len(hyperedges) |-> [idx |-> i - 1, nodes |-> hyperedges[i].right]],
              times |-> [i \in 1..Len(hyperedges) |-> [idx |-> i - 1, time |-> hyperedges[i].time]]],
     out |-> IF hyperedges = <<>> THEN [err |-> "ValueError"] ELSE [err |-> "none"]]

\* Lines 171-172 of main(): a builder's exception leaves the directory alone.
DhWriteBuilt(built, old) ==
    IF built.err # "none"
    THEN [dir |-> old, out |-> [err |-> built.err]]
    ELSE dh_write_hypergraph_files(built.hyperedges)

\* Lines 163-167 of main(): the hyperedges of the chosen mode.
DhBuild(fills, ids, mode, window_seconds) ==
    IF mode = "transaction"
    THEN transaction_based_hypergraph(fills, ids)
    ELSE time_window_based_hypergraph(fills, ids, window_seconds)

\* main() of the converter on the loaded fills.
dh_main(fills, mode, window_seconds, old) ==
    DhWriteBuilt(DhBuild(fills, create_node_mapping(fills), mode, window_seconds), old)

----------------------------------------------------------------------------
(* SpecFile: one fills file given to the converter and to the per-market   *)
(* generator.                                                              *)

\* Fills ten seconds after PoolSell1 and PoolBuy2, the maker in the opposite
\* role, and fills 4000 seconds after those.
Pool10    == [maker |-> Addra, taker |-> AddrB, makerAssetId |-> Cash,
              takerAssetId |-> Tok1, timestamp |-> 10]
Pool4010  == [maker |-> AddrA, taker |-> Addrb, makerAssetId |-> Cash,
              takerAssetId |-> Tok1, timestamp |-> 4010]
PoolNext10   == [maker |-> AddrA, taker |-> Addrb, makerAssetId |-> Tok2,
                 takerAssetId |-> Cash, timestamp |-> SecondsPerDay + 9]
PoolNext4010 == [maker |-> Addrb, taker |-> Addra, makerAssetId |-> Tok2,
                 takerAssetId |-> Cash, timestamp |-> SecondsPerDay + 4009]

\* The fills of the files whose fills are seconds and an hour apart.
HourPool == {PoolSell1, Pool10, Pool4010, PoolBuy2, PoolNext10, PoolNext4010}

InitFile ==
    /\ fill = NoFill
    /\ result = NotRun
    /\ bucket = -1
    /\ rebucket = -1
    /\ raw = <<>>
    /\ \E k \in 0..MaxFills : input \in [1..k -> FillPool] \cup [1..k -> HourPool]
    /\ files = [d \in {Market1} |-> EmptyDir]
    /\ outcome = [d \in {Market1, DirectedDir} |-> NotRun]
    /\ built_edges = [d \in {Market1} |-> <<>>]
    /\ dout = EmptyDirectedDir
    /\ wallet_to_id = <<>>
    /\ call = <<>>
    /\ remote = <<>> /\ request = <<>> /\ response = <<>> /\ rerun = FALSE
    /\ pc = <<>> /\ pending = <<>>

\* A converter run ended with r; the outcome keeps the run's arguments.
CommitDirected(r, mode, window_seconds) ==
    /\ dout' = r.dir
    /\ outcome' = [outcome EXCEPT ![DirectedDir] =
                      [err |-> r.out.err, mode |-> mode, window |-> window_seconds]]
    /\ wallet_to_id' = create_node_mapping(input)
    /\ UNCHANGED <<fill, result, bucket, rebucket, raw, input, files, built_edges, call, AppVars>>

ConvertTransaction ==
    CommitDirected(dh_main(input, "transaction", WindowDefault, dout), "transaction", WindowDefault)

ConvertTimeWindow ==
    \E w \in Windows : CommitDirected(dh_main(input, "timewindow", w, dout), "timewindow", w)

GenerateFromInput ==
    /\ Commit(Market1,
              generate_market_hypergraph([exists |-> TRUE, fills |-> input], Market1,
                                         files[Market1]))

NextFile == ConvertTransaction \/ ConvertTimeWindow \/ GenerateFromInput

SpecFile == InitFile /\ [][NextFile]_vars

----------------------------------------------------------------------------
(* SpecWrite: the two undirected serializers called with every argument    *)
(* pair of the domain, on an empty directory and on one that holds an      *)
(* earlier dataset.                                                        *)

\* The hyperedges a caller may hand over.
CallEdges ==
    {[market |-> Market1, outcome |-> Tok1, day_start |-> d, side |-> BUY, traders |-> T] :
        d \in {0, SecondsPerDay}, T \in (SUBSET {Addra, Addrb}) \ {{}}}

\* The dataset an earlier, consistent call left in the directory.
PriorDataset ==
    write_hypergraph_files(
        <<[market |-> Market1, outcome |-> Tok1, day_start |-> 0, side |-> BUY,
           traders |-> {Addra, Addrb}]>>,
        {Addra, Addrb}, EmptyDir).dir

InitWrite ==
    /\ fill = NoFill
    /\ result = NotRun
    /\ bucket = -1
    /\ rebucket = -1
    /\ raw = <<>>
    /\ input = <<>>
    /\ dout = <<>>
    /\ wallet_to_id = <<>>
    /\ remote = <<>> /\ request = <<>> /\ response = <<>> /\ rerun = FALSE
    /\ pc = <<>> /\ pending = <<>>
    /\ \E k \in 0..MaxEdges : \E edges \in [1..k -> CallEdges] :
       \E traders \in SUBSET {Addra, Addrb} :
          call = [hyperedges |-> edges, all_traders |-> traders]
    /\ files \in [{Market1} -> {EmptyDir, PriorDataset}]
    /\ outcome = [d \in {Market1} |-> NotRun]
    /\ built_edges = [d \in {Market1} |-> <<>>]

WriteHypergraphFiles ==
    Commit(Market1,
           WithEdges(write_hypergraph_files(call.hyperedges, call.all_traders, files[Market1]),
                     call.hyperedges))

GhWriteHypergraphFiles ==
    Commit(Market1,
           WithEdges(gh_write_hypergraph_files(call.hyperedges, call.all_traders, files[Market1]),
                     call.hyperedges))

NextWrite == WriteHypergraphFiles \/ GhWriteHypergraphFiles

SpecWrite == InitWrite /\ [][NextWrite]_vars

----------------------------------------------------------------------------
(* The fetch-and-generate pipeline (polymarket_processor.py) and the web   *)
(* handlers that drive it (app.py).                                        *)

\* Largest number of markets in one batch or event request.
MaxBatch == 2

Space == 32
Separators == {47, 63, 35}          \* the characters of r"[/?#]"
Host == <<112, 46, 99>>             \* stands for 'polymarket.com'

\* str.strip() for the whitespace of the domain.
RECURSIVE Strip(_)
Strip(text) ==
    IF text = <<>> THEN text
    ELSE IF Head(text) = Space THEN Strip(Tail(text))
    ELSE IF text[Len(text)] = Space THEN Strip(SubSeq(text, 1, Len(text) - 1))
    ELSE text

\* sub in text
Contains(text, sub) ==
    \E i \in 1..(Len(text) - Len(sub) + 1) : SubSeq(text, i, i + Len(sub) - 1) = sub

\* [p for p in re.split(r"[/?#]", text) if p][-1]
LastSegment(text) ==
    LET last  == CHOOSE j \in 1..Len(text) :
                    /\ text[j] \notin Separators
                    /\ \A k \in (j + 1)..Len(text) : text[k] \in Separators
        first == CHOOSE i \in 1..last :
                    /\ \A k \in i..last : text[k] \notin Separators
                    /\ i = 1 \/ text[i - 1] \in Separators
    IN  SubSeq(text, first, last)

\* PolymarketProcessor.parse_market_slug
parse_market_slug(text) ==
    IF Contains(Strip(text), Host) THEN LastSegment(Strip(text)) ELSE Strip(text)

\* by_id[row["id"]] = row over maker_side + taker_side: a row seen again keeps
\* the place of its first appearance (a row is identified by its id).
RECURSIVE DedupeById(_, _)
DedupeById(rows, by_id) ==
    IF rows = <<>> THEN by_id
    ELSE DedupeById(Tail(rows),
                    IF Head(rows) \in Range(by_id) THEN by_id ELSE Append(by_id, Head(rows)))

\* PolymarketProcessor.fetch_all_fills: both sides merged, deduplicated by id
\* and sorted by int(timestamp).
fetch_all_fills(maker_side, taker_side) ==
    Values(SortByKey([i \in 1..Len(DedupeById(maker_side \o taker_side, <<>>)) |->
        [k |-> <<<<DedupeById(maker_side \o taker_side, <<>>)[i].timestamp>>>>,
         v |-> DedupeById(maker_side \o taker_side, <<>>)[i]]]))

\* None, for the statistics of a generation that failed.
None == [err |-> "None"]

\* hypergraph_stats / unified_stats of process_market (lines 343-357): the
\* statistics, or None when the generator raised.
StatsOrNone(r) == IF r.out.err = "none" THEN r.out ELSE None

\* The state process_market works on: the raw directory and the output tree.
PmPut(st, d, r) ==
    [raw   |-> st.raw,
     tree  |-> [st.tree EXCEPT ![d] = r.dir],
     outs  |-> [st.outs EXCEPT ![d] = r.out],
     edges |-> [st.edges EXCEPT ![d] = r.edges]]

\* os.listdir on the raw directory: the listed markets in the order the file
\* system keeps them.
ListingIn(order, rawdir) == SelectSeq(order, LAMBDA m : rawdir[m].exists)

\* Lines 322-325: the lowercased makers and takers of the fills.
UniqueTraders(fills) ==
    UNION {{Lower(fills[i].maker), Lower(fills[i].taker)} : i \in 1..Len(fills)}

\* Lines 359-372: the result dictionary.
PmReturn(slug, fills, g, u, st) ==
    [st  |-> PmPut(PmPut(st, slug, g), UnifiedDir, u),
     ret |-> [err |-> "none", market_slug |-> slug, total_fills |-> Len(fills),
              unique_traders |-> Cardinality(UniqueTraders(fills)),
              hypergraph |-> StatsOrNone(g), unified_hypergraph |-> StatsOrNone(u)]]

\* Sensitivity variant: the unified run reads the file just saved only.
PmUnified_saved_market_only(slug, fills, order, g, st) ==
    PmReturn(slug, fills, g,
             generate_unified_hypergraph(<<slug>>, st.raw, st.tree[UnifiedDir]),
             st)

\* Lines 350-357: the unified hypergraph is regenerated from the raw directory
\* as the market's own generation left it.
PmUnified(slug, fills, order, g, st) ==
    PmReturn(slug, fills, g,
             generate_unified_hypergraph(ListingIn(order, st.raw), st.raw, st.tree[UnifiedDir]),
             st)

\* Lines 313-348: the fills are saved as fills_<slug>.json, then the market's
\* hypergraph is generated from that file.
PmSave(slug, fills, order, st) ==
    PmUnified(slug, fills, order,
              generate_market_hypergraph([exists |-> TRUE, fills |-> fills], slug, st.tree[slug]),
              [st EXCEPT !.raw[slug] = [exists |-> TRUE, fills |-> fills]])

\* Lines 308-311.
PmFetched(slug, fills, order, st) ==
    IF fills = <<>>
    THEN [st |-> st, ret |-> [err |-> "ValueError"]]
    ELSE PmSave(slug, fills, order, st)

\* Lines 295-308: the slug is parsed and the market's metadata and fills are
\* fetched; an unknown or failing market raises at the metadata request.
PmSlug(slug, rem, order, st) ==
    IF slug \notin DOMAIN rem \/ ~rem[slug].ok
    THEN [st |-> st, ret |-> [err |-> "HTTPError"]]
    ELSE PmFetched(slug, fetch_all_fills(rem[slug].maker_side, rem[slug].taker_side), order, st)

\* PolymarketProcessor.process_market
process_market(market_url, rem, order, st) ==
    PmSlug(parse_market_slug(market_url), rem, order, st)

\* One entry of the results list of process_batch (lines 90-100).
BatchEntry(market_url, ret) ==
    IF ret.err = "none"
    THEN [url |-> market_url, success |-> TRUE, data |-> ret]
    ELSE [url |-> market_url, success |-> FALSE, error |-> ret.err]

\* The loop of process_batch (lines 77-100).
RECURSIVE BatchLoop(_, _, _, _, _)
RECURSIVE BatchCollect(_, _, _, _, _, _)
BatchCollect(market_url, r, rest, rem, order, results) ==
    BatchLoop(rest, rem, order, r.st, Append(results, BatchEntry(market_url, r.ret)))

BatchLoop(markets, rem, order, st, results) ==
    IF markets = <<>> THEN [st |-> st, results |-> results]
    ELSE IF Strip(Head(markets)) = <<>>
    THEN BatchLoop(Tail(markets), rem, order, st,
                   Append(results, [url |-> Strip(Head(markets)), success |-> FALSE,
                                    error |-> "Empty URL"]))
    ELSE BatchCollect(Strip(Head(markets)),
                      process_market(Strip(Head(markets)), rem, order, st),
                      Tail(markets), rem, order, results)

\* One entry of the results list of process_event (lines 231-241).
EventEntry(market_slug, ret) ==
    IF ret.err = "none"
    THEN [slug |-> market_slug, success |-> TRUE, data |-> ret]
    ELSE [slug |-> market_slug, success |-> FALSE, error |-> ret.err]

\* The loop of process_event (lines 228-241).
RECURSIVE EventLoop(_, _, _, _, _)
RECURSIVE EventCollect(_, _, _, _, _, _)
EventCollect(market_slug, r, rest, rem, order, results) ==
    EventLoop(rest, rem, order, r.st, Append(results, EventEntry(market_slug, r.ret)))

EventLoop(market_slugs, rem, order, st, results) ==
    IF market_slugs = <<>> THEN [st |-> st, results |-> results]
    ELSE EventCollect(Head(market_slugs),
                      process_market(Head(market_slugs), rem, order, st),
                      Tail(market_slugs), rem, order, results)

BadRequest(st, message) ==
    [st |-> st, response |-> [status |-> 400, success |-> FALSE, error |-> message]]

Results(looped) ==
    [st |-> looped.st,
     response |-> [status |-> 200, success |-> TRUE, results |-> looped.results]]

\* The route /api/process of app.py.
ApiProcessed(r) ==
    [st |-> r.st,
     response |-> IF r.ret.err = "none"
                  THEN [status |-> 200, success |-> TRUE, data |-> r.ret]
                  ELSE [status |-> 500, success |-> FALSE, error |-> r.ret.err]]

api_process_market(market_url, rem, order, st) ==
    IF Strip(market_url) = <<>>
    THEN BadRequest(st, "Market URL is required")
    ELSE ApiProcessed(process_market(Strip(market_url), rem, order, st))

\* The route /api/process-batch of app.py.
process_batch(markets, rem, order, st) ==
    IF markets = <<>>
    THEN BadRequest(st, "No markets provided")
    ELSE Results(BatchLoop(markets, rem, order, st, <<>>))

\* The route /api/process-event of app.py.
process_event(event_slug, market_slugs, rem, order, st) ==
    IF Strip(event_slug) = <<>>
    THEN BadRequest(st, "Event slug is required")
    ELSE IF market_slugs = <<>>
    THEN BadRequest(st, "No market slugs provided")
    ELSE Results(EventLoop(market_slugs, rem, order, st, <<>>))

----------------------------------------------------------------------------
(* SpecPipeline: requests to the web application, and the converter run on *)
(* the raw files it saved.                                                 *)

RowLate  == [maker |-> Addrb, taker |-> AddrA, makerAssetId |-> Tok2,
             takerAssetId |-> Cash, timestamp |-> MaxDay * SecondsPerDay]
RowNoKey == [maker |-> Addra, taker |-> Addrb, makerAssetId |-> Tok1,
             takerAssetId |-> Missing, timestamp |-> 0]

\* What the upstream services answer for a market: whether the metadata
\* request succeeds, and the rows of the maker-side and taker-side queries.
RemoteDown      == [ok |-> FALSE, maker_side |-> <<>>, taker_side |-> <<>>]
RemoteEmpty     == [ok |-> TRUE, maker_side |-> <<>>, taker_side |-> <<>>]
RemoteTraded    == [ok |-> TRUE, maker_side |-> <<PoolSell1, RowLate>>, taker_side |-> <<PoolBuy1>>]
RemoteBothSides == [ok |-> TRUE, maker_side |-> <<PoolNoCash>>, taker_side |-> <<PoolNoCash>>]
RemoteNoKey     == [ok |-> TRUE, maker_side |-> <<RowNoKey>>, taker_side |-> <<>>]
Remotes == (Market1 :> {RemoteDown, RemoteTraded, RemoteNoKey}) @@
           (Market2 :> {RemoteEmpty, RemoteBothSides})

Url2  == <<Space>> \o Host \o <<47>> \o Market2 \o <<47>>   \* ' polymarket.com/m2/'
Blank == <<Space>>
RequestUrls == {Market1, Url2, Blank}
EventSlug == <<101>>
EventMarketSlugs == {Market1, Market2}

\* The request lists of up to MaxBatch entries that name no entry twice.
Selections(S) ==
    UNION {{p \in [1..k -> S] : \A i, j \in 1..k : p[i] = p[j] => i = j} : k \in 0..MaxBatch}

NoRequest == [handler |-> "none"]

InitPipeline ==
    /\ fill = NoFill
    /\ result = NotRun
    /\ bucket = -1
    /\ rebucket = -1
    /\ input = <<>>
    /\ wallet_to_id = <<>>
    /\ call = <<>>
    /\ pc = <<>> /\ pending = <<>>
    /\ \E r1 \in Remotes[Market1] : \E r2 \in Remotes[Market2] :
          remote = (Market1 :> r1) @@ (Market2 :> r2)
    /\ raw = [m \in Markets |-> NoRawFile]
    /\ files = [d \in Dirs |-> EmptyDir]
    /\ dout = EmptyDirectedDir
    /\ outcome = [d \in Dirs \cup {DirectedDir} |-> NotRun]
    /\ built_edges = [d \in Dirs |-> <<>>]
    /\ request = NoRequest
    /\ response = [status |-> 0]
    /\ rerun = FALSE

\* The request req was handled with r.
Handled(req, r) ==
    /\ rerun' = (req = request)
    /\ request' = req
    /\ response' = r.response
    /\ raw' = r.st.raw
    /\ files' = r.st.tree
    /\ outcome' = r.st.outs
    /\ built_edges' = r.st.edges
    /\ UNCHANGED <<fill, result, bucket, rebucket, input, dout, wallet_to_id, call, remote, pc, pending>>

Tree == [raw |-> raw, tree |-> files, outs |-> outcome, edges |-> built_edges]

ProcessMarket ==
    \E market_url \in RequestUrls : \E order \in Orderings(Markets) :
        Handled([handler |-> "process", markets |-> <<market_url>>],
                api_process_market(market_url, remote, order, Tree))

ProcessBatch ==
    \E markets \in Selections(RequestUrls) : \E order \in Orderings(Markets) :
        Handled([handler |-> "batch", markets |-> markets],
                process_batch(markets, remote, order, Tree))

ProcessEvent ==
    \E market_slugs \in Selections(EventMarketSlugs) : \E order \in Orderings(Markets) :
        Handled([handler |-> "event", markets |-> market_slugs],
                process_event(EventSlug, market_slugs, remote, order, Tree))

\* convert_polymarket_to_hypergraph.py run on a raw file of the pipeline.
ConvertedRaw(req, r, ids) ==
    /\ rerun' = (req = request)
    /\ request' = req
    /\ response' = [status |-> 0]
    /\ dout' = r.dir
    /\ outcome' = [outcome EXCEPT ![DirectedDir] =
                      [err |-> r.out.err, mode |-> req.mode, window |-> req.window]]
    /\ wallet_to_id' = ids
    /\ UNCHANGED <<fill, result, bucket, rebucket, input, raw, files, built_edges, call, remote, pc, pending>>

ConvertRawFile ==
    \E m \in Markets : \E mode \in {"transaction", "timewindow"} :
        IF raw[m].exists
        THEN ConvertedRaw([handler |-> "convert", markets |-> <<m>>, mode |-> mode,
                           window |-> WindowDefault],
                          dh_main(raw[m].fills, mode, WindowDefault, dout),
                          create_node_mapping(raw[m].fills))
        ELSE ConvertedRaw([handler |-> "convert", markets |-> <<m>>, mode |-> mode,
                           window |-> WindowDefault],
                          [dir |-> dout, out |-> [err |-> "FileNotFoundError"]],
                          wallet_to_id)

NextPipeline == ProcessMarket \/ ProcessBatch \/ ProcessEvent \/ ConvertRawFile

SpecPipeline == InitPipeline /\ [][NextPipeline]_vars

----------------------------------------------------------------------------
(* SpecTasks: two /api/process requests for different markets served at    *)
(* the same time (app.run serves each request in a thread of its own; no   *)
(* handler takes a lock).  A task's steps are the fetch with the save of   *)
(* the raw file, each build of a hypergraph, and each file it writes.      *)

Tasks == {1, 2}
SlugOf(t) == IF t = 1 THEN Market1 ELSE Market2

\* The order in which write_hypergraph_files opens its files (lines 138-175).
FileOrder == <<"node-labels", "nverts", "simplices", "times">>

\* with open(file, 'w'): one file of the directory replaced by that of data.
PutFile(dir, f, data) ==
    [present   |-> dir.present \cup {f},
     labels    |-> IF f = "node-labels" THEN data.labels ELSE dir.labels,
     nverts    |-> IF f = "nverts" THEN data.nverts ELSE dir.nverts,
     simplices |-> IF f = "simplices" THEN data.simplices ELSE dir.simplices,
     times     |-> IF f = "times" THEN data.times ELSE dir.times]

NothingPending == [dir |-> <<>>, left |-> <<>>]

InitTasks ==
    /\ fill = NoFill
    /\ result = NotRun
    /\ bucket = -1
    /\ rebucket = -1
    /\ input = <<>>
    /\ wallet_to_id = <<>>
    /\ call = <<>>
    /\ dout = <<>>
    /\ request = <<>> /\ response = <<>> /\ rerun = FALSE
    /\ \E r1 \in Remotes[Market1] : \E r2 \in Remotes[Market2] :
          remote = (Market1 :> r1) @@ (Market2 :> r2)
    /\ raw = [m \in Markets |-> NoRawFile]
    /\ files = [d \in Dirs |-> EmptyDir]
    /\ outcome = [d \in Dirs |-> NotRun]
    /\ built_edges = [d \in Dirs |-> <<>>]
    /\ pc = [t \in Tasks |-> "fetch"]
    /\ pending = [t \in Tasks |-> NothingPending]

TaskIdle == <<fill, result, bucket, rebucket, input, wallet_to_id, call, dout,
              request, response, rerun, remote>>

\* Where a task goes on after directory d is done with.
After(d) == IF d = UnifiedDir THEN "done" ELSE "unified"

\* Lines 295-318 of process_market: the fills are fetched and saved.
Fetched(t, fills) ==
    /\ IF fills = <<>>
       THEN /\ pc' = [pc EXCEPT ![t] = "done"]
            /\ raw' = raw
       ELSE /\ pc' = [pc EXCEPT ![t] = "generate"]
            /\ raw' = [raw EXCEPT ![SlugOf(t)] = [exists |-> TRUE, fills |-> fills]]
    /\ UNCHANGED <<files, outcome, built_edges, pending, TaskIdle>>

TaskFetch(t) ==
    /\ pc[t] = "fetch"
    /\ IF remote[SlugOf(t)].ok
       THEN Fetched(t, fetch_all_fills(remote[SlugOf(t)].maker_side, remote[SlugOf(t)].taker_side))
       ELSE Fetched(t, <<>>)

\* A generator has read its input and built the dataset g for directory d: on
\* an exception nothing is written, otherwise the files are written one by one.
BuiltFor(t, d, g) ==
    /\ built_edges' = [built_edges EXCEPT ![d] = g.edges]
    /\ IF g.out.err # "none"
       THEN /\ pc' = [pc EXCEPT ![t] = After(d)]
            /\ outcome' = [outcome EXCEPT ![d] = g.out]
            /\ pending' = pending
       ELSE /\ pc' = [pc EXCEPT ![t] = "write"]
            /\ outcome' = outcome
            /\ pending' = [pending EXCEPT ![t] =
                              [dir |-> d, data |-> g.dir, out |-> g.out, left |-> FileOrder]]
    /\ UNCHANGED <<raw, files, TaskIdle>>

\* Lines 341-348: generate_market_hypergraph up to its first write.
TaskGenerate(t) ==
    /\ pc[t] = "generate"
    /\ BuiltFor(t, SlugOf(t), generate_market_hypergraph(raw[SlugOf(t)], SlugOf(t), EmptyDir))

\* Lines 350-357: generate_unified_hypergraph up to its first write.
TaskUnified(t) ==
    /\ pc[t] = "unified"
    /\ \E order \in Orderings(Markets) :
          BuiltFor(t, UnifiedDir,
                 generate_unified_hypergraph(ListingIn(order, raw), raw, EmptyDir))

\* write_hypergraph_files: the next file is opened, written and closed.
TaskWriteFile(t) ==
    /\ pc[t] = "write"
    /\ files' = [files EXCEPT ![pending[t].dir] =
                    PutFile(@, Head(pending[t].left), pending[t].data)]
    /\ IF Len(pending[t].left) = 1
       THEN /\ pc' = [pc EXCEPT ![t] = After(pending[t].dir)]
            /\ outcome' = [outcome EXCEPT ![pending[t].dir] = pending[t].out]
            /\ pending' = [pending EXCEPT ![t] = NothingPending]
       ELSE /\ pc' = pc
            /\ outcome' = outcome
            /\ pending' = [pending EXCEPT ![t].left = Tail(@)]
    /\ UNCHANGED <<raw, built_edges, TaskIdle>>

NextTasks ==
    \E t \in Tasks : TaskFetch(t) \/ TaskGenerate(t) \/ TaskUnified(t) \/ TaskWriteFile(t)

SpecTasks == InitTasks /\ [][NextTasks]_vars

----------------------------------------------------------------------------
(* Claims about the undirected datasets (checked under Spec).              *)

\* The directories whose last generator run returned normally with all four
\* files on disk.
Written(d) == outcome[d] # NotRun /\ outcome[d].err = "none" /\ files[d].present = FileNames

\* C1: in every written undirected dataset the number of nverts records equals
\* the number of times records, and the nverts values sum to the number of
\* simplices records.
C1_ParallelFilesAgree ==
    \A d \in Dirs :
        files[d].present = FileNames =>
            /\ Len(files[d].nverts) = Len(files[d].times)
            /\ SumSeq(files[d].nverts) = Len(files[d].simplices)

\* A unified dataset of two markets with edges of different sizes is on disk.
C1_Witness ==
    /\ files[UnifiedDir].present = FileNames
    /\ Len(files[UnifiedDir].nverts) >= 4
    /\ \E i \in 1..Len(files[UnifiedDir].nverts) : files[UnifiedDir].nverts[i] >= 2
    /\ Len(files[UnifiedDir].simplices) >= 5
    /\ raw[Market1].fills # <<>> /\ raw[Market2].fills # <<>>

\* The sort key of a returned hyperedge: (day_start, market, outcome, side); the
\* per-market builder of generate_hypergraph.py returns edges without a market,
\* which all belong to the market of directory d.
EdgeKey(e, d) ==
    << <<e.day_start>>, IF "market" \in DOMAIN e THEN e.market ELSE d, e.outcome, e.side >>

\* C3: every hyperedge list a builder returned is strictly ascending in
\* (day_start, market, outcome, side); no two edges share a key.
C3_EdgesStrictlyAscending ==
    \A d \in Dirs :
        \A i, j \in 1..Len(built_edges[d]) :
            i < j => TupleLess(EdgeKey(built_edges[d][i], d), EdgeKey(built_edges[d][j], d))

\* A builder was given a later day's fill before an earlier day's, and a
\* unified run listed two markets that both have edges.
C3_Witness ==
    /\ raw[Market1].fills = <<PoolBuy1, PoolSell1>>
    /\ Len(built_edges[Market1]) = 4
    /\ built_edges[Market1][1].day_start = 0
    /\ built_edges[Market1][4].day_start = SecondsPerDay
    /\ raw[Market2].fills # <<>>
    /\ \E i, j \in 1..Len(built_edges[UnifiedDir]) :
          /\ i < j
          /\ built_edges[UnifiedDir][i].market = Market2
          /\ built_edges[UnifiedDir][j].market = Market1

\* A fill the spec calls malformed: a required key is absent, or neither asset
\* id is the cash-leg sentinel.
Malformed(f) ==
    \/ f.makerAssetId = Missing \/ f.takerAssetId = Missing
    \/ f.makerAssetId # Cash /\ f.takerAssetId # Cash

\* C6: when a fill of a market is malformed, that market's run aborts: none of
\* its output files is written, and no hypergraph is built from its fills.
C6_MalformedFillAbortsMarket ==
    \A m \in Markets :
        (\E i \in 1..Len(raw[m].fills) : Malformed(raw[m].fills[i])) =>
            /\ files[m] = EmptyDir
            /\ built_edges[m] = <<>>
            /\ outcome[m] # NotRun => outcome[m].err # "none"

\* The party of fill f that classify_trade puts on the given side.
PartyOn(f, side) ==
    IF side = BUY THEN classify_trade(f).buyer ELSE classify_trade(f).seller

\* The fills of market m that classify to outcome token o on day day.
Matching(m, o, day) ==
    {i \in 1..Len(raw[m].fills) :
        /\ classify_trade(raw[m].fills[i]).outcome_token = o
        /\ classify_trade(raw[m].fills[i]).day_start = day}

\* The markets whose fills the builder of directory d aggregates.
Scope(d) == IF d = UnifiedDir THEN Listed(raw) ELSE {d}

MarketOf(e, d) == IF "market" \in DOMAIN e THEN e.market ELSE d

\* C8: a trader is a member of the edge (market, outcome, day, side) exactly
\* when they were the buyer (for BUY) or the seller (for SELL) of a fill of
\* that market with that outcome token and day; every such fill has its edge,
\* and an edge only draws on the fills of its own market.
C8_MembershipIsParticipation ==
    \A d \in Dirs :
        (outcome[d] # NotRun /\ outcome[d].err = "none") =>
            /\ \A i \in 1..Len(built_edges[d]) :
                  LET e == built_edges[d][i]
                  IN  /\ MarketOf(e, d) \in Scope(d)
                      /\ e.side \in {BUY, SELL}
                      /\ e.traders # {}
                      /\ e.traders =
                            {PartyOn(raw[MarketOf(e, d)].fills[k], e.side) :
                                k \in Matching(MarketOf(e, d), e.outcome, e.day_start)}
            /\ \A m \in Scope(d) : \A k \in 1..Len(raw[m].fills) : \A side \in {BUY, SELL} :
                  \E i \in 1..Len(built_edges[d]) :
                      /\ MarketOf(built_edges[d][i], d) = m
                      /\ built_edges[d][i].outcome = classify_trade(raw[m].fills[k]).outcome_token
                      /\ built_edges[d][i].day_start = classify_trade(raw[m].fills[k]).day_start
                      /\ built_edges[d][i].side = side
                      /\ PartyOn(raw[m].fills[k], side) \in built_edges[d][i].traders

\* A unified run over two markets that traded the same token on the same day;
\* in one of them a trader bought and sold it.
C8_Witness ==
    /\ outcome[UnifiedDir] # NotRun /\ outcome[UnifiedDir].err = "none"
    /\ raw[Market1].fills = <<PoolSell1, PoolSell1R>>
    /\ raw[Market2].fills = <<PoolSell1>>
    /\ Len(built_edges[UnifiedDir]) = 4
    /\ \E i, j \in 1..4 :
          /\ built_edges[UnifiedDir][i].market = Market1
          /\ built_edges[UnifiedDir][i].side = BUY
          /\ built_edges[UnifiedDir][j].market = Market1
          /\ built_edges[UnifiedDir][j].side = SELL
          /\ Addra \in built_edges[UnifiedDir][i].traders \cap built_edges[UnifiedDir][j].traders
    /\ \E i \in 1..4 :
          /\ built_edges[UnifiedDir][i].market = Market2
          /\ built_edges[UnifiedDir][i].traders = {Addra}

\* The ids of edge i in the simplices file: the nverts[i] records after those
\* of the edges before it.
RECURSIVE SumFirst(_, _)
SumFirst(s, n) == IF n = 0 THEN 0 ELSE s[n] + SumFirst(s, n - 1)

Segment(dir, i) ==
    SubSeq(dir.simplices, SumFirst(dir.nverts, i - 1) + 1, SumFirst(dir.nverts, i))

\* C9: in every dataset built from fills, the simplices records of edge i are
\* the ids of that edge's members, strictly ascending; every id is in 1..N for
\* N label lines, label line k is the address with id k (no address twice),
\* and every label line is referenced by an edge.
C9_SimplicesAreMemberIds ==
    \A d \in Dirs :
        Written(d) =>
            /\ Len(files[d].nverts) = Len(built_edges[d])
            /\ \A k, l \in 1..Len(files[d].labels) :
                  files[d].labels[k] = files[d].labels[l] => k = l
            /\ \A i \in 1..Len(built_edges[d]) :
                  LET seg == Segment(files[d], i)
                  IN  /\ Len(seg) = files[d].nverts[i]
                      /\ \A k \in 1..Len(seg) : seg[k] \in 1..Len(files[d].labels)
                      /\ \A k, l \in 1..Len(seg) : k < l => seg[k] < seg[l]
                      /\ {files[d].labels[seg[k]] : k \in 1..Len(seg)} = built_edges[d][i].traders
            /\ Range(files[d].simplices) = 1..Len(files[d].labels)

\* A dataset with an edge of two members and a later edge holding only the
\* second label.
C9_Witness ==
    /\ Written(Market1)
    /\ files[Market1].labels = <<Addra, Addrb>>
    /\ \E i, j \in 1..Len(files[Market1].nverts) :
          /\ i < j
          /\ Segment(files[Market1], i) = <<1, 2>>
          /\ Segment(files[Market1], j) = <<2>>

\* The fields two hyperedge lists are compared on: day_start, outcome, side
\* and members, in order.
SansMarket(edges) ==
    [i \in 1..Len(edges) |->
        [day_start |-> edges[i].day_start, outcome |-> edges[i].outcome,
         side |-> edges[i].side, traders |-> edges[i].traders]]

\* Builder results a (generate_hypergraph.py) and b (hypergraph_utils.py) are
\* the same exception, or the same trader set and edge sequence, and each
\* module's serializer writes the same files for its own builder's result.
BuildersAgree(a, b, old) ==
    /\ a.err = b.err
    /\ a.err = "none" =>
          /\ a.all_traders = b.all_traders
          /\ SansMarket(a.hyperedges) = SansMarket(b.hyperedges)
          /\ gh_write_hypergraph_files(a.hyperedges, a.all_traders, old).dir
                = write_hypergraph_files(b.hyperedges, b.all_traders, old).dir

\* The unified build a of generate_hypergraph.py and the unified run u of
\* hypergraph_utils.py have the same edge sequence and files.
UnifiedAgree(a, u, old) ==
    /\ a.err = u.out.err
    /\ a.err = "none" =>
          /\ a.hyperedges = u.edges
          /\ gh_write_hypergraph_files(a.hyperedges, a.all_traders, old).dir = u.dir

\* The dataset of directory d, written by either module, is what builder
\* result b of hypergraph_utils.py serializes to.
DatasetIs(d, b) ==
    /\ b.err = "none"
    /\ SansMarket(built_edges[d]) = SansMarket(b.hyperedges)
    /\ files[d] = write_hypergraph_files(b.hyperedges, b.all_traders, EmptyDir).dir

\* No generator has run yet.  The raw directory never changes, so what the
\* builders return for its fills is stated on these states, one for every raw
\* directory of the domain.
NothingRun == \A d \in Dirs : outcome[d] = NotRun

\* C23: for every market slug (given or absent) and fill list,
\* build_per_market_hypergraph and build_hypergraph_from_fills return the same
\* trader set and the same edge sequence (order, day_start, outcome, side and
\* members); build_hypergraph and generate_unified_hypergraph produce the same
\* edge sequence for the same fills by market; and the files either module
\* wrote are the files the other one writes.
C23_BuildersAgree ==
    /\ NothingRun =>
          /\ \A m \in Markets : \A slug \in {m, <<>>} :
                BuildersAgree(build_per_market_hypergraph(slug, raw[m].fills),
                              build_hypergraph_from_fills(raw[m].fills, slug), files[m])
          /\ \A listing \in Orderings(Listed(raw)) :
                listing # <<>> =>
                    UnifiedAgree(build_hypergraph(listing, FillsByMarket(listing, raw)),
                                 generate_unified_hypergraph(listing, raw, files[UnifiedDir]),
                                 files[UnifiedDir])
    /\ \A m \in Markets :
          Written(m) => DatasetIs(m, build_hypergraph_from_fills(raw[m].fills, m))
    /\ Written(UnifiedDir) =>
          \A listing \in Orderings(Listed(raw)) :
              DatasetIs(UnifiedDir, build_hypergraph(listing, FillsByMarket(listing, raw)))

\* generate_hypergraph.py wrote the dataset of a market whose first fill is of
\* the later day and the smaller outcome token, and hypergraph_utils.py wrote
\* the unified dataset of two markets after it.
C23_Witness ==
    /\ raw[Market1].fills = <<PoolBuy1, PoolBuy2>>
    /\ raw[Market2].fills # <<>>
    /\ outcome[Market1] = [err |-> "none"]
    /\ Written(Market1)
    /\ Len(built_edges[Market1]) = 4
    /\ built_edges[Market1][1].outcome = Tok2 /\ built_edges[Market1][4].outcome = Tok1
    /\ Written(UnifiedDir)
    /\ "nodes" \in DOMAIN outcome[UnifiedDir]

----------------------------------------------------------------------------
(* Claims about node identity (checked under SpecFile).                    *)

\* The lowercased addresses of the input fills: the undirected address set.
LoweredParties(fills) ==
    UNION {{Lower(fills[i].maker), Lower(fills[i].taker)} : i \in 1..Len(fills)}

\* The address-to-id mapping the label file stands for: line k holds id k.
LabelIds(dir) == [a \in Range(dir.labels) |-> IndexOf(dir.labels, a)]

\* C2: the id of an address is its rank among the sorted distinct addresses of
\* the dataset, from 1 in the undirected and from 0 in the directed format: a
\* bijection onto a dense range, the same for every order of the input fills.
C2_IdsAreSortedRanks ==
    /\ Written(Market1) =>
          /\ Range(files[Market1].labels) = LoweredParties(input)
          /\ \A a, b \in Range(files[Market1].labels) :
                StrLess(a, b) <=> LabelIds(files[Market1])[a] < LabelIds(files[Market1])[b]
          /\ {LabelIds(files[Market1])[a] : a \in Range(files[Market1].labels)}
                = 1..Cardinality(LoweredParties(input))
          /\ \A p \in Rearrangements(input) :
                generate_market_hypergraph([exists |-> TRUE, fills |-> p], Market1,
                                           EmptyDir).dir.labels = files[Market1].labels
    /\ outcome[DirectedDir] # NotRun =>
          /\ DOMAIN wallet_to_id = Wallets(input)
          /\ \A a, b \in DOMAIN wallet_to_id :
                StrLess(a, b) <=> wallet_to_id[a] < wallet_to_id[b]
          /\ {wallet_to_id[a] : a \in DOMAIN wallet_to_id}
                = 0..(Cardinality(Wallets(input)) - 1)
          /\ \A p \in Rearrangements(input) : create_node_mapping(p) = wallet_to_id

\* Both formats were produced from fills whose addresses first appear in
\* descending order.
C2_Witness ==
    /\ input = <<PoolSell1, PoolBuy1>>
    /\ Written(Market1)
    /\ files[Market1].labels = <<Addra, Addrb>>
    /\ outcome[DirectedDir] # NotRun
    /\ wallet_to_id[AddrA] = 0 /\ wallet_to_id[Addra] = 1 /\ wallet_to_id[Addrb] = 2

----------------------------------------------------------------------------
(* Claims about the directed datasets and the entry points (checked under  *)
(* SpecFile).                                                              *)

\* C11: an empty fill sequence is reported as an EmptyDatasetError by the
\* per-market generator and by both directed modes, and leaves no output file
\* behind.
C11_EmptyInputIsReported ==
    input = <<>> =>
        /\ outcome[Market1] # NotRun =>
              /\ outcome[Market1].err = "EmptyDatasetError"
              /\ files[Market1].present = {}
        /\ outcome[DirectedDir] # NotRun =>
              /\ outcome[DirectedDir].err = "EmptyDatasetError"
              /\ dout.present = {}

\* C13: addresses are identified case-insensitively: every address that
\* names a node is lowercase, and two addresses that differ only in letter
\* case have one label and one id, in the undirected format and in both
\* directed modes.
C13_NodeIdentityIgnoresCase ==
    /\ Written(Market1) =>
          /\ \A a \in Range(files[Market1].labels) : a = Lower(a)
          /\ \A i, j \in 1..Len(files[Market1].labels) :
                files[Market1].labels[i] = files[Market1].labels[j] => i = j
    /\ outcome[DirectedDir] # NotRun =>
          \A a, b \in DOMAIN wallet_to_id :
              /\ a = Lower(a)
              /\ Lower(a) = Lower(b) => wallet_to_id[a] = wallet_to_id[b]

\* The last converter run was in the given mode.
DirectedRan(mode) == outcome[DirectedDir] # NotRun /\ outcome[DirectedDir].mode = mode

\* The party of fill f that holds the cash leg buys, the other one sells; for
\* a fill whose maker does not hold it the taker buys.
Buyer(f)  == IF f.makerAssetId = Cash THEN f.maker ELSE f.taker
Seller(f) == IF f.makerAssetId = Cash THEN f.taker ELSE f.maker

\* The fills whose timestamp lies in the window that starts at T.
FillsIn(T, w) == {i \in 1..Len(input) : T <= input[i].timestamp /\ input[i].timestamp < T + w}

\* C14: in time-window mode with window w, every edge's time is a multiple of
\* w whose window holds a fill, its left side is exactly the set of sellers and
\* its right side exactly the set of buyers of the fills of that window,
\* neither side is empty, and every fill's window has exactly one edge.
C14_WindowEdgesAreWindows ==
    DirectedRan("timewindow") =>
        /\ Len(dout.left) = Len(dout.times) /\ Len(dout.right) = Len(dout.times)
        /\ \A k \in 1..Len(dout.times) :
              /\ dout.times[k].time % outcome[DirectedDir].window = 0
              /\ FillsIn(dout.times[k].time, outcome[DirectedDir].window) # {}
              /\ Range(dout.left[k].nodes) =
                    {wallet_to_id[Seller(input[i])] :
                        i \in FillsIn(dout.times[k].time, outcome[DirectedDir].window)}
              /\ Range(dout.right[k].nodes) =
                    {wallet_to_id[Buyer(input[i])] :
                        i \in FillsIn(dout.times[k].time, outcome[DirectedDir].window)}
              /\ Len(dout.left[k].nodes) = Cardinality(Range(dout.left[k].nodes))
              /\ Len(dout.right[k].nodes) = Cardinality(Range(dout.right[k].nodes))
              /\ dout.left[k].nodes # <<>> /\ dout.right[k].nodes # <<>>
        /\ \A i \in 1..Len(input) :
              Cardinality({k \in 1..Len(dout.times) :
                  i \in FillsIn(dout.times[k].time, outcome[DirectedDir].window)}) = 1

\* Two fills of one hour with different sellers and buyers, and a fill of the
\* next day.
C14_Witness ==
    /\ DirectedRan("timewindow")
    /\ outcome[DirectedDir].window = WindowDefault
    /\ input = <<PoolBuy1, PoolSell1R, PoolSell1>>
    /\ Len(dout.times) = 2
    /\ dout.left[1].nodes = <<1, 2>> /\ dout.right[1].nodes = <<1, 2>>
    /\ dout.times[2].time = SecondsPerDay
    /\ dout.left[2].nodes = <<2>> /\ dout.right[2].nodes = <<0>>

\* A time-window run with the default window of 3600 seconds wrote its files.
HourlyRun ==
    /\ DirectedRan("timewindow")
    /\ outcome[DirectedDir].window = WindowDefault
    /\ outcome[DirectedDir].err = "none"

\* The edges whose window holds fill i.
EdgesOfFill(i) == {k \in 1..Len(dout.times) : i \in FillsIn(dout.times[k].time, WindowDefault)}

\* Fill j is ten seconds after fill i and its maker has the opposite role.
TenApartOpposite(i, j) ==
    /\ input[j].timestamp = input[i].timestamp + 10
    /\ (input[i].makerAssetId = Cash) # (input[j].makerAssetId = Cash)

\* Edge k holds the sellers and the buyers of both fills.
HoldsBoth(k, i, j) ==
    /\ {wallet_to_id[Seller(input[i])], wallet_to_id[Seller(input[j])]}
          \subseteq Range(dout.left[k].nodes)
    /\ {wallet_to_id[Buyer(input[i])], wallet_to_id[Buyer(input[j])]}
          \subseteq Range(dout.right[k].nodes)

\* Fill l, 4000 seconds after fill j, has an edge of its own, after the edges
\* of fills i and j.
StartsNewEdge(l, i, j) ==
    /\ Cardinality(EdgesOfFill(l)) = 1
    /\ \A k \in EdgesOfFill(l) : \A e \in EdgesOfFill(i) \cup EdgesOfFill(j) :
          /\ e < k
          /\ dout.times[e].time < dout.times[k].time

\* C22 as stated: with window 3600, two fills ten seconds apart with opposite
\* roles are always in one edge that holds the sellers and buyers of both, and
\* a fill 4000 seconds later always starts a separate edge.
C22_AsStated ==
    HourlyRun =>
        \A i, j \in 1..Len(input) :
            TenApartOpposite(i, j) =>
                /\ EdgesOfFill(i) = EdgesOfFill(j)
                /\ Cardinality(EdgesOfFill(i)) = 1
                /\ \A k \in EdgesOfFill(i) : HoldsBoth(k, i, j)
                /\ \A l \in 1..Len(input) :
                      input[l].timestamp = input[j].timestamp + 4000 => StartsNewEdge(l, i, j)

\* C22: with window 3600, two fills ten seconds apart with opposite roles are
\* merged into one edge, holding the sellers and buyers of both, exactly when
\* no multiple of 3600 lies after the first and up to the second; when one
\* does, they are two edges, the second one window after the first.  A fill
\* 4000 seconds later starts a separate, later edge in both cases.
C22_MergedWithinAlignedWindow ==
    HourlyRun =>
        \A i, j \in 1..Len(input) :
            TenApartOpposite(i, j) =>
                /\ Cardinality(EdgesOfFill(i)) = 1 /\ Cardinality(EdgesOfFill(j)) = 1
                /\ input[i].timestamp \div WindowDefault = input[j].timestamp \div WindowDefault =>
                      /\ EdgesOfFill(i) = EdgesOfFill(j)
                      /\ \A k \in EdgesOfFill(i) : HoldsBoth(k, i, j)
                /\ input[i].timestamp \div WindowDefault # input[j].timestamp \div WindowDefault =>
                      \A k \in EdgesOfFill(i) :
                          /\ EdgesOfFill(j) = {k + 1}
                          /\ dout.times[k + 1].time = dout.times[k].time + WindowDefault
                /\ \A l \in 1..Len(input) :
                      input[l].timestamp = input[j].timestamp + 4000 => StartsNewEdge(l, i, j)

\* The fills at 0 and 10 seconds are one edge with two sellers and one buyer,
\* and the fill at 4010 seconds is the edge after it.
C22_Witness ==
    /\ HourlyRun
    /\ input = <<PoolSell1, Pool10, Pool4010>>
    /\ TenApartOpposite(1, 2)
    /\ Len(dout.times) = 2
    /\ dout.times[1].time = 0 /\ dout.times[2].time = WindowDefault
    /\ Len(dout.left[1].nodes) = 2 /\ Len(dout.right[1].nodes) = 1
    /\ EdgesOfFill(3) = {2}

\* C15: in transaction mode there is one edge per fill, in the order of the
\* fills: left is the maker's id, right the taker's id and time the fill's
\* timestamp, whichever party holds the cash leg.
C15_TransactionEdgesAreFills ==
    DirectedRan("transaction") =>
        /\ Len(dout.left) = Len(input)
        /\ Len(dout.right) = Len(input)
        /\ Len(dout.times) = Len(input)
        /\ \A k \in 1..Len(input) :
              /\ dout.left[k].nodes = <<wallet_to_id[input[k].maker]>>
              /\ dout.right[k].nodes = <<wallet_to_id[input[k].taker]>>
              /\ dout.times[k].time = input[k].timestamp

\* The maker holds the cash leg in the first fill and the token in the second;
\* the first fill is not at the start of its day.
C15_Witness ==
    /\ DirectedRan("transaction")
    /\ input = <<PoolBuy1, PoolSell1>>
    /\ dout.times[1].time = SecondsPerDay + 1
    /\ dout.left[1].nodes = <<0>> /\ dout.left[2].nodes = <<2>>

\* C16: the three files of a directed dataset have the same number of lines,
\* and line j (from 0) starts with the index j in each of them.
C16_DirectedFilesShareIndex ==
    (outcome[DirectedDir] # NotRun /\ dout.present = DirectedFileNames) =>
        /\ Len(dout.left) = Len(dout.times)
        /\ Len(dout.right) = Len(dout.times)
        /\ \A j \in 1..Len(dout.times) :
              /\ dout.left[j].idx = j - 1
              /\ dout.right[j].idx = j - 1
              /\ dout.times[j].idx = j - 1

C16_Witness ==
    /\ outcome[DirectedDir] # NotRun
    /\ dout.present = DirectedFileNames
    /\ Len(dout.times) = MaxFills
    /\ dout.times[MaxFills].idx = MaxFills - 1

\* C17: in both directed modes the edges are in ascending order of time,
\* whatever the order of the fills in the input.
C17_DirectedEdgesAscendByTime ==
    outcome[DirectedDir] # NotRun =>
        \A i, j \in 1..Len(dout.times) :
            i < j => dout.times[i].time <= dout.times[j].time

----------------------------------------------------------------------------
(* Claims about the pipeline and its handlers (checked under SpecPipeline). *)

\* The fills the upstream services hold for the market a request entry names.
Upstream(text) ==
    fetch_all_fills(remote[parse_market_slug(text)].maker_side,
                    remote[parse_market_slug(text)].taker_side)

\* The market cannot be fetched: it is unknown, its metadata request fails, or
\* it has no fills.
FetchFails(text) ==
    \/ parse_market_slug(text) \notin DOMAIN remote
    \/ ~remote[parse_market_slug(text)].ok
    \/ Upstream(text) = <<>>

\* The market's hypergraph cannot be generated from its fills.
GenerationFails(text) ==
    /\ ~FetchFails(text)
    /\ generate_market_hypergraph([exists |-> TRUE, fills |-> Upstream(text)],
                                  parse_market_slug(text), EmptyDir).out.err # "none"

EntryKey(e) == IF "url" \in DOMAIN e THEN e.url ELSE e.slug

\* C12: a batch or event request gets one result entry per requested market,
\* in request order; a market is attempted whatever happened to the markets
\* before it; a market whose fetch or generation failed is a failure entry
\* with an error, and a success entry carries the hypergraph statistics.
C12_BatchReportsEveryMarket ==
    (request.handler \in {"batch", "event"} /\ request.markets # <<>>) =>
        /\ response.status = 200
        /\ Len(response.results) = Len(request.markets)
        /\ \A i \in 1..Len(request.markets) :
              /\ EntryKey(response.results[i]) = Strip(request.markets[i])
              /\ ~FetchFails(request.markets[i]) =>
                    raw[parse_market_slug(request.markets[i])].exists
              /\ (FetchFails(request.markets[i]) \/ GenerationFails(request.markets[i])) =>
                    /\ ~response.results[i].success
                    /\ "error" \in DOMAIN response.results[i]
              /\ response.results[i].success =>
                    /\ "data" \in DOMAIN response.results[i]
                    /\ response.results[i].data.hypergraph # None

\* C18: handling a request again, with the upstream data unchanged, leaves
\* every output file, undirected and directed, with the content it had after
\* the first time.
C18_RerunIsIdentical ==
    [][rerun' => (files' = files /\ dout' = dout /\ raw' = raw)]_vars

\* A batch over two markets with fills was handled twice in a row.
C18_Witness ==
    /\ rerun
    /\ request.handler = "batch"
    /\ request.markets = <<Market1, Url2>>
    /\ response.results[1].success /\ response.results[2].success
    /\ Written(UnifiedDir) /\ Written(Market1) /\ Written(Market2)
    /\ Len(files[UnifiedDir].times) > Len(files[Market1].times)

\* The last unified regeneration returned normally.
UnifiedCompleted == outcome[UnifiedDir] # NotRun /\ outcome[UnifiedDir].err = "none"

\* The hyperedges of the fills file of market m: one key (day_start, market,
\* outcome, side) per side of every fill.
ScratchKeysOf(m) ==
    {<< <<classify_trade(raw[m].fills[k]).day_start>>, m,
        classify_trade(raw[m].fills[k]).outcome_token, side >> :
        k \in 1..Len(raw[m].fills), side \in {BUY, SELL}}

\* The hyperedges of the raw directory as it is now.
ScratchEdges == UNION {ScratchKeysOf(m) : m \in Listed(raw)}

\* The members of the edge with key: the parties on its side of its fills.
ScratchMembers(key) ==
    {PartyOn(raw[key[2]].fills[k], key[4]) : k \in Matching(key[2], key[3], key[1][1])}

ScratchTraders == UNION {ScratchMembers(key) : key \in ScratchEdges}

\* The place of an edge in the ascending order of the keys.
ScratchRank(key) == 1 + Cardinality({other \in ScratchEdges : TupleLess(other, key)})

\* C21: whenever a unified regeneration has completed, the unified dataset is
\* the hypergraph of all fills files now in the raw directory, computed from
\* nothing else: every fill of every file is in it, its labels are the sorted
\* traders of those files, its edges are their (day, market, outcome, side)
\* keys in ascending order with their members' ids; and it is what a run gives
\* for every listing order of the raw directory and every previous content of
\* the unified directory.
C21_UnifiedIsFullRecomputation ==
    UnifiedCompleted =>
        /\ \A m \in Listed(raw) : \A k \in 1..Len(raw[m].fills) :
              classify_trade(raw[m].fills[k]).err = "none"
        /\ files[UnifiedDir].present = FileNames
        /\ files[UnifiedDir].labels = SortedStrings(ScratchTraders)
        /\ Len(files[UnifiedDir].times) = Cardinality(ScratchEdges)
        /\ Len(files[UnifiedDir].nverts) = Cardinality(ScratchEdges)
        /\ Len(files[UnifiedDir].simplices) = SumSeq(files[UnifiedDir].nverts)
        /\ \A key \in ScratchEdges :
              /\ files[UnifiedDir].times[ScratchRank(key)] = key[1][1]
              /\ files[UnifiedDir].nverts[ScratchRank(key)] = Cardinality(ScratchMembers(key))
              /\ Segment(files[UnifiedDir], ScratchRank(key)) =
                    [i \in 1..Cardinality(ScratchMembers(key)) |->
                        IndexOf(files[UnifiedDir].labels,
                                SortedStrings(ScratchMembers(key))[i])]
        /\ \A order \in Orderings(Markets) : \A d \in Dirs :
              generate_unified_hypergraph(ListingIn(order, raw), raw, files[d]).dir
                  = files[UnifiedDir]

\* The second market was processed by a request of its own after the first:
\* the unified directory held the first market's edges only, and now holds
\* the edges of both.
C21_Witness ==
    /\ UnifiedCompleted
    /\ request.handler = "process" /\ request.markets = <<Url2>>
    /\ raw[Market1].exists /\ raw[Market2].exists
    /\ outcome[Market1] # NotRun /\ outcome[Market1].err = "none"
    /\ \E key \in ScratchEdges : key[2] = Market1
    /\ \E key \in ScratchEdges : key[2] = Market2
    /\ Len(files[UnifiedDir].times) > Len(files[Market1].times)

----------------------------------------------------------------------------
(* Claims about concurrent tasks (checked under SpecTasks).                *)

\* Task t is in the middle of writing the files of directory d: it has written
\* one of them and has more to write.
WritingTo(t, d) ==
    /\ pc[t] = "write"
    /\ pending[t].dir = d
    /\ Len(pending[t].left) < Len(FileOrder)

\* C20: two tasks for different markets are never in the middle of writing the
\* files of the same output directory at the same time.
C20_NoSharedOutputDirectory ==
    \A d \in Dirs : ~(WritingTo(1, d) /\ WritingTo(2, d))

----------------------------------------------------------------------------
(* Claims about the serializer's failure mode (checked under SpecWrite).   *)

\* The arguments are inconsistent: an edge member has no node id.  (The
\* serializer derives the three parallel lists itself, so this is the only
\* inconsistency a caller can hand over.)
Inconsistent(c) ==
    \E i \in 1..Len(c.hyperedges) : ~(c.hyperedges[i].traders \subseteq c.all_traders)

\* C10: a call with inconsistent arguments fails with IntegrityError before
\* any file is written: the directory is as it was before the call.
C10_InconsistentCallWritesNothing ==
    (outcome[Market1] # NotRun /\ Inconsistent(call)) =>
        /\ outcome[Market1].err = "IntegrityError"
        /\ files[Market1] \in {EmptyDir, PriorDataset}

\* The directory holds exactly the dataset of the call: all four files, each
\* with the records of the arguments.
AllWritten(dir, c) ==
    /\ dir.present = FileNames
    /\ dir.labels = SortedStrings(c.all_traders)
    /\ Len(dir.nverts) = Len(c.hyperedges)
    /\ Len(dir.times) = Len(c.hyperedges)
    /\ Len(dir.simplices) = SumSeq(dir.nverts)

\* C19: a serializer call writes all companion files of the dataset or none:
\* afterwards the directory is as it was before the call, or it holds the
\* dataset of the call, and never a mixture.
C19_WriteIsAllOrNothing ==
    outcome[Market1] # NotRun =>
        \/ files[Market1] \in {EmptyDir, PriorDataset}
        \/ AllWritten(files[Market1], call)

----------------------------------------------------------------------------
(* Claims about the pure functions (checked under SpecPure).               *)

\* C4 as stated: for every classified fill, buyer differs from seller, and one
\* of them equals the fill's maker and the other the fill's taker.  Stated for
\* the fills the spec accepts: exactly one party holds the cash leg.
C4_AsStated ==
    (/\ result.err = "none"
     /\ (fill.makerAssetId = Cash) # (fill.takerAssetId = Cash)) =>
        /\ result.buyer # result.seller
        /\ \/ result.buyer = fill.maker /\ result.seller = fill.taker
           \/ result.buyer = fill.taker /\ result.seller = fill.maker

\* C4 amended: for every classified fill, buyer and seller are the lowercased
\* maker and the lowercased taker, one each; buyer differs from seller exactly
\* when maker and taker differ after lowercasing.
C4_RolesAreLoweredParties ==
    result.err = "none" =>
        /\ \/ result.buyer = Lower(fill.maker) /\ result.seller = Lower(fill.taker)
           \/ result.buyer = Lower(fill.taker) /\ result.seller = Lower(fill.maker)
        /\ (result.buyer # result.seller) <=> (Lower(fill.maker) # Lower(fill.taker))

\* A fill with an upper-case maker whose taker holds the cash leg was classified.
C4_Witness ==
    /\ result.err = "none"
    /\ fill.maker = AddrA /\ fill.taker = Addrb
    /\ fill.makerAssetId = Tok1 /\ fill.takerAssetId = Cash
    /\ result.buyer = Addrb /\ result.seller = Addra

\* C5: classifying a fill in which neither asset id is the cash-leg sentinel
\* "0" fails with MalformedFillError and assigns no roles.
C5_NoCashLegIsRejected ==
    (/\ result # NotRun
     /\ fill.makerAssetId \in Assets \ {Cash}
     /\ fill.takerAssetId \in Assets \ {Cash})
        => result.err = "MalformedFillError"

\* C7: the day bucket d of a timestamp t is t - (t mod 86400): a multiple of
\* 86400 with d <= t < d + 86400; d and d + 86399 fall in bucket d, d + 86400
\* in the next one, and bucketing a bucket returns it.
C7_DayStartTruncates ==
    bucket # -1 =>
        /\ bucket = fill.timestamp - (fill.timestamp % SecondsPerDay)
        /\ bucket % SecondsPerDay = 0
        /\ bucket <= fill.timestamp /\ fill.timestamp < bucket + SecondsPerDay
        /\ rebucket = bucket
        /\ get_day_start_timestamp(bucket + SecondsPerDay - 1) = bucket
        /\ get_day_start_timestamp(bucket + SecondsPerDay) = bucket + SecondsPerDay

\* The last second of a later day was bucketed.
C7_Witness ==
    /\ bucket = SecondsPerDay
    /\ fill.timestamp = 2 * SecondsPerDay - 1
    /\ rebucket = SecondsPerDay

=============================================================================
